---- MODULE Spec2Model ----
(***************************************************************************)
(* DS_bighw (src/main.c): extraction of GTP_LUT<digits> instances from a   *)
(* netlist buffer (parse_luts_from_buffer) and greedy first-fit pairing of *)
(* the instances under the union-size limit (run_one,                      *)
(* union_unique_count_le6).                                                *)
(*                                                                         *)
(* Three specifications share the variables:                               *)
(*   SpecPair  - the pairing loop and the report of run_one;               *)
(*   SpecUnion - union_unique_count_le6 as a pure function;                *)
(*   SpecParse - the scan of parse_luts_from_buffer.                       *)
(* Cursors and indices are 0-based as in the C code; sequences are 1-based *)
(* so element i of an array is s[i + 1].                                   *)
(***************************************************************************)
EXTENDS Integers, Sequences, FiniteSets, TLC

VARIABLES luts, i, pair_a, pair_b, n_pairs, report, ppc,
          ua, ub, ures, upc,
          buf, junk, over, p, pc, lut, depth, added

pairVars == <<luts, i, pair_a, pair_b, n_pairs, report, ppc>>
unionVars == <<ua, ub, ures, upc>>
parseVars == <<buf, junk, over, p, pc, lut, depth, added>>
vars == <<luts, i, pair_a, pair_b, n_pairs, report, ppc, ua, ub, ures, upc,
          buf, junk, over, p, pc, lut, depth, added>>

(***************************************************************************)
(* Bounds of the model.                                                    *)
(***************************************************************************)
MaxLuts == 4
NumNets == 7
WinLen == 4
UnionNets == 7
MaxBody == 3
MaxOverreads == 1

(***************************************************************************)
(* Program constant: the limit on the distinct input nets of a pair.       *)
(***************************************************************************)
MaxUnion == 6

Range(s) == {s[k] : k \in 1..Len(s)}

NoDup(s) == \A x, y \in 1..Len(s) : x # y => s[x] # s[y]

(***************************************************************************)
(* union_unique_count_le6, computed as the code computes it: count starts  *)
(* at a->net_count, every net of b that is not found in a increments it,   *)
(* and the loop returns 0 as soon as count exceeds 6.                      *)
(***************************************************************************)
FoundIn(a, net) == \E x \in 1..Len(a) : a[x] = net

RECURSIVE UnionLoop(_, _, _, _)
UnionLoop(a, b, j, count) ==
    IF j >= Len(b) THEN count <= MaxUnion
    ELSE IF FoundIn(a, b[j + 1]) THEN UnionLoop(a, b, j + 1, count)
    ELSE IF count + 1 > MaxUnion THEN FALSE
    ELSE UnionLoop(a, b, j + 1, count + 1)

RECURSIVE UnionLoopNoFinalTest(_, _, _, _)
UnionLoopNoFinalTest(a, b, j, count) ==
    IF j >= Len(b) THEN TRUE
    ELSE IF FoundIn(a, b[j + 1]) THEN UnionLoopNoFinalTest(a, b, j + 1, count)
    ELSE IF count + 1 > MaxUnion THEN FALSE
    ELSE UnionLoopNoFinalTest(a, b, j + 1, count + 1)

union_le6_no_final_test(a, b) == UnionLoopNoFinalTest(a.nets, b.nets, 0, Len(a.nets))

union_le6_count_from_zero(a, b) == UnionLoop(a.nets, b.nets, 0, 0)

union_unique_count_le6(a, b) == UnionLoop(a.nets, b.nets, 0, Len(a.nets))

(***************************************************************************)
(* The inner loop of the pairing (lines 386-390): the first j > i that is  *)
(* not used and passes union_unique_count_le6 with i, or -1.               *)
(***************************************************************************)
RECURSIVE BestFrom(_, _, _)
BestFrom(ls, ii, j) ==
    IF j >= Len(ls) THEN -1
    ELSE IF ls[j + 1].used THEN BestFrom(ls, ii, j + 1)
    ELSE IF union_unique_count_le6(ls[ii + 1], ls[j + 1]) THEN j
    ELSE BestFrom(ls, ii, j + 1)

RECURSIVE BestFromIgnoreUsed(_, _, _)
BestFromIgnoreUsed(ls, ii, j) ==
    IF j >= Len(ls) THEN -1
    ELSE IF union_unique_count_le6(ls[ii + 1], ls[j + 1]) THEN j
    ELSE BestFromIgnoreUsed(ls, ii, j + 1)

RECURSIVE BestFromLast(_, _, _)
BestFromLast(ls, ii, j) ==
    IF j >= Len(ls) THEN -1
    ELSE LET later == BestFromLast(ls, ii, j + 1)
         IN  IF later # -1 THEN later
             ELSE IF ~ls[j + 1].used /\ union_unique_count_le6(ls[ii + 1], ls[j + 1])
                  THEN j ELSE -1

find_best_ignore_used(ls, ii) == BestFromIgnoreUsed(ls, ii, ii + 1)

find_best_last(ls, ii) == BestFromLast(ls, ii, ii + 1)

find_best_skip_next(ls, ii) == BestFrom(ls, ii, ii + 2)

find_best(ls, ii) == BestFrom(ls, ii, ii + 1)

(***************************************************************************)
(* Lines 392-396: both members are marked used and the pair is stored at   *)
(* index n_pairs of pair_a / pair_b.                                       *)
(***************************************************************************)
mark_used(ls, ii, best) ==
    [k \in 1..Len(ls) |->
        IF k = ii + 1 \/ k = best + 1 THEN [ls[k] EXCEPT !.used = TRUE] ELSE ls[k]]

store_pair_front(arr, n, v) == <<v>> \o arr

store_pair(arr, n, v) == SubSeq(arr, 1, n) \o <<v>>

(***************************************************************************)
(* Instance lists handed to the pairing loop.  Every inputs list is        *)
(* duplicate free, as lut_add_net_unique leaves it: the empty list, the    *)
(* windows of WinLen-1 and WinLen consecutive nets, and all NumNets nets.  *)
(***************************************************************************)
Window(lo, n) == [k \in 1..n |-> lo + k - 1]

InputLists ==
    {Window(1, 0), Window(1, NumNets)}
    \cup {Window(lo, WinLen) : lo \in 1..(NumNets - WinLen + 1)}
    \cup {Window(lo, WinLen - 1) : lo \in 1..(NumNets - WinLen + 2)}

InstName(k) == <<"u", k>>

MkLuts(netsSeq) ==
    [k \in 1..Len(netsSeq) |-> [inst |-> InstName(k - 1), nets |-> netsSeq[k], used |-> FALSE]]

UnionIdle == ua = <<>> /\ ub = <<>> /\ ures = FALSE /\ upc = "idle"

NoLut == [inst |-> <<>>, nets |-> <<>>, used |-> FALSE]

ParseIdle ==
    /\ buf = <<>> /\ junk = <<>> /\ over = 0 /\ p = 0 /\ pc = "idle"
    /\ lut = NoLut /\ depth = 0 /\ added = <<>>

PairIdle ==
    /\ luts = <<>> /\ i = 0 /\ pair_a = <<>> /\ pair_b = <<>> /\ n_pairs = 0
    /\ report = <<>> /\ ppc = "idle"

(***************************************************************************)
(* run_one after parse_luts_from_buffer returned (line 383).               *)
(***************************************************************************)
InitPair ==
    /\ \E n \in 0..MaxLuts : \E ns \in [1..n -> InputLists] : luts = MkLuts(ns)
    /\ i = 0
    /\ pair_a = <<>>
    /\ pair_b = <<>>
    /\ n_pairs = 0
    /\ report = <<>>
    /\ ppc = "pairing"
    /\ UnionIdle
    /\ ParseIdle

(***************************************************************************)
(* One iteration of the outer loop, lines 384-398.                         *)
(***************************************************************************)
PairIter ==
    /\ ppc = "pairing"
    /\ i < Len(luts)
    /\ IF luts[i + 1].used
       THEN UNCHANGED <<luts, pair_a, pair_b, n_pairs>>
       ELSE LET best == find_best(luts, i)
            IN  IF best # -1
                THEN /\ luts' = mark_used(luts, i, best)
                     /\ pair_a' = store_pair(pair_a, n_pairs, i)
                     /\ pair_b' = store_pair(pair_b, n_pairs, best)
                     /\ n_pairs' = n_pairs + 1
                ELSE UNCHANGED <<luts, pair_a, pair_b, n_pairs>>
    /\ i' = i + 1
    /\ UNCHANGED <<report, ppc>>
    /\ UNCHANGED unionVars
    /\ UNCHANGED parseVars

(***************************************************************************)
(* Lines 406-409: the count line, then one line per pair in index order.   *)
(***************************************************************************)
report_lines(ls, pa, pb, n) ==
    <<n>> \o [k \in 1..n |-> <<ls[pa[k] + 1].inst, ls[pb[k] + 1].inst>>]

WriteReport ==
    /\ ppc = "pairing"
    /\ i >= Len(luts)
    /\ report' = report_lines(luts, pair_a, pair_b, n_pairs)
    /\ ppc' = "done"
    /\ UNCHANGED <<luts, i, pair_a, pair_b, n_pairs>>
    /\ UNCHANGED unionVars
    /\ UNCHANGED parseVars

NextPair == PairIter \/ WriteReport

SpecPair == InitPair /\ [][NextPair]_vars

(***************************************************************************)
(* Vocabulary of the pairing claims, stated over sets and independent of   *)
(* union_unique_count_le6.                                                 *)
(***************************************************************************)
UnionSize(x, y) == Cardinality(Range(luts[x + 1].nets) \cup Range(luts[y + 1].nets))

Members == [k \in 1..(2 * n_pairs) |->
               IF k <= n_pairs THEN pair_a[k] ELSE pair_b[k - n_pairs]]

Unconsumed == {x \in 0..(Len(luts) - 1) : ~luts[x + 1].used}

(***************************************************************************)
(* C1: for every pair (a, b) emitted by the pairing loop, the number of    *)
(* distinct net names in a.inputs \cup b.inputs is at most 6.              *)
(***************************************************************************)
C1_PairUnionAtMost6 ==
    \A k \in 1..n_pairs : UnionSize(pair_a[k], pair_b[k]) <= MaxUnion

C1_Witness ==
    /\ n_pairs = 2
    /\ pair_b[1] > pair_a[1] + 1
    /\ UnionSize(pair_a[1], pair_a[1] + 1) > MaxUnion
    /\ UnionSize(pair_a[1], pair_b[1]) = MaxUnion

(***************************************************************************)
(* C2: in every state of the pairing loop no instance index appears in     *)
(* more than one emitted pair, nor as both elements of one pair, both      *)
(* members of every emitted pair are consumed, and a consumed flag that is *)
(* true is never reset (so it goes from false to true at most once): an    *)
(* instance enters a pair only in a step in which its flag was false.      *)
(***************************************************************************)
C2_State ==
    /\ NoDup(Members)
    /\ \A k \in 1..(2 * n_pairs) : luts[Members[k] + 1].used

C2_Step ==
    /\ \A k \in 1..Len(luts) : luts[k].used => luts'[k].used
    /\ n_pairs' # n_pairs =>
          /\ ~luts[pair_a'[n_pairs'] + 1].used
          /\ ~luts[pair_b'[n_pairs'] + 1].used

C2_AtMostOnePair == [](ppc # "idle" => C2_State) /\ [][ppc # "idle" => C2_Step]_vars

C2_Witness ==
    /\ n_pairs = 2
    /\ i = Len(luts)
    /\ luts[i].used
    /\ pair_b[1] > pair_a[2]

(***************************************************************************)
(* C3: first fit.  Whenever the loop emits a pair (i, j): j > i, j was     *)
(* unconsumed and within the union limit with i, and every k with          *)
(* i < k < j was at that moment consumed or had a union with i of more     *)
(* than 6 distinct nets.                                                   *)
(***************************************************************************)
C3_Step ==
    n_pairs' # n_pairs =>
        LET x == pair_a'[n_pairs']
            y == pair_b'[n_pairs']
        IN  /\ x = i
            /\ y > x
            /\ ~luts[y + 1].used
            /\ UnionSize(x, y) <= MaxUnion
            /\ \A k \in (x + 1)..(y - 1) : luts[k + 1].used \/ UnionSize(x, k) > MaxUnion

C3_FirstFit == [][ppc = "pairing" => C3_Step]_vars

C3_Witness ==
    /\ n_pairs = 2
    /\ pair_b[1] = pair_a[1] + 2
    /\ UnionSize(pair_a[1], pair_a[1] + 1) > MaxUnion
    /\ pair_b[2] = pair_a[2] + 2
    /\ pair_b[1] = pair_a[2] + 1

(***************************************************************************)
(* C6: the left elements of the emitted pairs are strictly increasing, and *)
(* the report lists the pairs in that order, one line per pair after the   *)
(* count line.                                                             *)
(***************************************************************************)
C6_EmissionOrder ==
    /\ \A k, l \in 1..n_pairs : k < l => pair_a[k] < pair_a[l]
    /\ ppc = "done" =>
          /\ Len(report) = n_pairs + 1
          /\ report[1] = n_pairs
          /\ \A k \in 1..n_pairs :
                report[k + 1] = <<InstName(pair_a[k]), InstName(pair_b[k])>>

C6_Witness ==
    /\ ppc = "done"
    /\ n_pairs = 2
    /\ pair_b[1] > pair_b[2]

(***************************************************************************)
(* C10: when the pairing loop has finished, no two distinct instances are  *)
(* both unconsumed with a combined distinct input-net count of at most 6.  *)
(***************************************************************************)
C10_Maximal ==
    (ppc \in {"pairing", "done"} /\ i >= Len(luts)) =>
        \A x, y \in Unconsumed : x # y => UnionSize(x, y) > MaxUnion

C10_Witness ==
    /\ ppc = "done"
    /\ n_pairs >= 1
    /\ Cardinality(Unconsumed) >= 2
    /\ \E x \in Unconsumed : x < pair_b[1]

(***************************************************************************)
(* union_unique_count_le6 on its own: a and b range over the duplicate-    *)
(* free lists of nets 1..UnionNets, a in ascending order and b in          *)
(* ascending or descending order.                                          *)
(***************************************************************************)
RECURSIVE Ascending(_)
Ascending(S) ==
    IF S = {} THEN <<>>
    ELSE LET m == CHOOSE x \in S : \A y \in S : x <= y
         IN  <<m>> \o Ascending(S \ {m})

Reverse(s) == [k \in 1..Len(s) |-> s[Len(s) + 1 - k]]

InitUnion ==
    /\ \E A \in SUBSET (1..UnionNets) : ua = Ascending(A)
    /\ \E B \in SUBSET (1..UnionNets) : ub \in {Ascending(B), Reverse(Ascending(B))}
    /\ ures = FALSE
    /\ upc = "call"
    /\ PairIdle
    /\ ParseIdle

UnionCall ==
    /\ upc = "call"
    /\ ures' = union_unique_count_le6([nets |-> ua], [nets |-> ub])
    /\ upc' = "ret"
    /\ UNCHANGED <<ua, ub>>
    /\ UNCHANGED pairVars
    /\ UNCHANGED parseVars

NextUnion == UnionCall

SpecUnion == InitUnion /\ [][NextUnion]_vars

(***************************************************************************)
(* C8: union_unique_count_le6(a, b) is true exactly when the set union of  *)
(* a.inputs and b.inputs has at most 6 elements, for all duplicate-free    *)
(* a and b; the early return at count > 6 does not change the result.      *)
(***************************************************************************)
C8_UnionExact ==
    upc = "ret" => (ures <=> Cardinality(Range(ua) \cup Range(ub)) <= MaxUnion)

C8_Witness ==
    /\ upc = "ret"
    /\ Len(ua) > MaxUnion
    /\ ub # <<>>
    /\ Range(ub) \subseteq Range(ua)
    /\ ures = FALSE

(***************************************************************************)
(* parse_luts_from_buffer.  Text is a sequence of one-character strings;   *)
(* the memory read by the scan is the buffer, its terminating NUL, and     *)
(* whatever lies behind the terminator once the cursor has left the        *)
(* buffer (junk).  The buffer is the private copy after                    *)
(* strip_block_comments and strip_line_comments (line 198); the texts      *)
(* below contain no '/', so stripping leaves them as they are.             *)
(***************************************************************************)
NUL == "NUL"

Mem == buf \o <<NUL>> \o junk

At(m, q) == m[q + 1]

Letters ==
    {"a", "b", "c", "d", "e", "f", "g", "h", "i", "j", "k", "l", "m",
     "n", "o", "p", "q", "r", "s", "t", "u", "v", "w", "x", "y", "z",
     "A", "B", "C", "D", "E", "F", "G", "H", "I", "J", "K", "L", "M",
     "N", "O", "P", "Q", "R", "S", "T", "U", "V", "W", "X", "Y", "Z"}

isdigit(c) == c \in {"0", "1", "2", "3", "4", "5", "6", "7", "8", "9"}

isalnum(c) == c \in Letters \/ isdigit(c)

(* isspace in the C locale; the vertical tab has no TLA+ string escape and  *)
(* does not occur in the texts.                                            *)
isspace(c) == c \in {" ", "\t", "\n", "\r", "\f"}

is_ident_char(c) == isalnum(c) \/ c = "_" \/ c = "$"

RECURSIVE skip_spaces(_, _)
skip_spaces(m, q) ==
    IF At(m, q) # NUL /\ isspace(At(m, q)) THEN skip_spaces(m, q + 1) ELSE q

RECURSIVE ScanNonSpace(_, _)
ScanNonSpace(m, q) ==
    IF At(m, q) # NUL /\ ~isspace(At(m, q)) THEN ScanNonSpace(m, q + 1) ELSE q

RECURSIVE ScanIdent(_, _)
ScanIdent(m, q) ==
    IF At(m, q) # NUL /\ is_ident_char(At(m, q)) THEN ScanIdent(m, q + 1) ELSE q

(***************************************************************************)
(* parse_identifier(&p): ok = FALSE is the NULL return, which leaves the   *)
(* caller's cursor where it was; otherwise tok is the token (an escaped    *)
(* identifier keeps its backslash) and p the cursor behind it.             *)
(***************************************************************************)
parse_identifier(m, q) ==
    LET s == skip_spaces(m, q)
    IN  IF At(m, s) = "\\"
        THEN LET e == ScanNonSpace(m, s + 1)
             IN  [ok |-> TRUE, tok |-> SubSeq(m, s + 1, e), p |-> e]
        ELSE IF ~is_ident_char(At(m, s))
        THEN [ok |-> FALSE, tok |-> <<>>, p |-> q]
        ELSE LET e == ScanIdent(m, s)
             IN  [ok |-> TRUE, tok |-> SubSeq(m, s + 1, e), p |-> e]

GTP_LUT == <<"G", "T", "P", "_", "L", "U", "T">>

GTP_LUT6CARRY == <<"G", "T", "P", "_", "L", "U", "T", "6", "C", "A", "R", "R", "Y">>

is_gtp_lut_cell(cell) ==
    /\ cell # GTP_LUT6CARRY
    /\ Len(cell) >= 7
    /\ SubSeq(cell, 1, 7) = GTP_LUT
    /\ Len(cell) >= 8
    /\ isdigit(cell[8])
    /\ \A k \in 8..Len(cell) : isdigit(cell[k])

(***************************************************************************)
(* lut_add_net_unique: the net is trimmed at both ends, dropped when       *)
(* nothing is left or when a stored net equals it (strncmp over len        *)
(* characters and a terminator at len), and appended otherwise.            *)
(***************************************************************************)
RECURSIVE TrimStart(_, _)
TrimStart(net, k) ==
    IF k <= Len(net) /\ isspace(net[k]) THEN TrimStart(net, k + 1) ELSE k

RECURSIVE TrimEnd(_, _, _)
TrimEnd(net, start, end) ==
    IF end > start /\ isspace(net[end - 1]) THEN TrimEnd(net, start, end - 1) ELSE end

CharOf(str, k) == IF k <= Len(str) THEN str[k] ELSE NUL

SameNet(stored, net, start, len) ==
    /\ \A k \in 1..len : CharOf(stored, k) = net[start + k - 1]
    /\ CharOf(stored, len + 1) = NUL

lut_add_net_prefix_compare(nets, net) ==
    LET start == TrimStart(net, 1)
        end == TrimEnd(net, start, Len(net) + 1)
        len == end - start
    IN  IF start > Len(net) THEN nets
        ELSE IF end <= start THEN nets
        ELSE IF \E x \in 1..Len(nets) :
                   \A k \in 1..len : CharOf(nets[x], k) = net[start + k - 1]
             THEN nets
        ELSE Append(nets, SubSeq(net, start, end - 1))

lut_add_net_unique(nets, net) ==
    LET start == TrimStart(net, 1)
        end == TrimEnd(net, start, Len(net) + 1)
        len == end - start
    IN  IF start > Len(net) THEN nets
        ELSE IF end <= start THEN nets
        ELSE IF \E x \in 1..Len(nets) : SameNet(nets[x], net, start, len) THEN nets
        ELSE Append(nets, SubSeq(net, start, end - 1))

(***************************************************************************)
(* Port filter, lines 270-277: I followed by one or more digits.           *)
(***************************************************************************)
record_port(port) ==
    /\ port[1] = "I"
    /\ \A k \in 2..Len(port) : isdigit(port[k])
    /\ Len(port) >= 2

RECURSIVE ScanToClose(_, _)
ScanToClose(m, q) ==
    IF At(m, q) # NUL /\ At(m, q) # ")" THEN ScanToClose(m, q + 1) ELSE q

RECURSIVE ScanToSemi(_, _)
ScanToSemi(m, q) ==
    IF At(m, q) # NUL /\ At(m, q) # ";" /\ At(m, q) # "\n" THEN ScanToSemi(m, q + 1) ELSE q

(***************************************************************************)
(* Input texts: a head followed by at most MaxBody pieces.                 *)
(***************************************************************************)
PieceInst == <<"G", "T", "P", "_", "L", "U", "T", "6", " ", "u", "(">>

PieceCell == <<"G", "T", "P", "_", "L", "U", "T", "6", " ">>

PieceCarry == <<"G", "T", "P", "_", "L", "U", "T", "6", "C", "A", "R", "R", "Y", " ", "u", "(">>

PieceEscaped == <<"G", "T", "P", "_", "L", "U", "T", "1", "0", " ", "\\", "u", " ", "(">>

PieceBindA == <<".", "I", "0", "(", "a", ")">>

PieceBindASpaced == <<".", "I", "1", "(", " ", "a", " ", ")">>

PieceBindAB == <<".", "I", "2", "(", "a", "b", ")">>

PieceBindZ == <<".", "Z", "(", "a", ")">>

Heads == {PieceInst, PieceCell, PieceCarry, PieceEscaped}

Pieces ==
    {PieceInst, <<"u">>, <<"(">>, <<")">>, <<" ">>, <<";">>, <<"\n">>, <<".">>,
     PieceBindA, PieceBindASpaced, PieceBindAB, PieceBindZ}

RECURSIVE Concat(_)
Concat(ps) == IF ps = <<>> THEN <<>> ELSE Head(ps) \o Concat(Tail(ps))

Texts ==
    {h \o Concat(b) : h \in Heads, b \in UNION {[1..n -> Pieces] : n \in 0..MaxBody}}

(***************************************************************************)
(* Bytes that may lie behind the terminator of the buffer.                 *)
(***************************************************************************)
Tails == {<<NUL>>, <<")", NUL>>, PieceBindAB \o <<NUL>>, <<" ", NUL>>}

(***************************************************************************)
(* Lines 196-202.                                                          *)
(***************************************************************************)
InitParse ==
    /\ buf \in Texts
    /\ junk = <<>>
    /\ over = 0
    /\ p = 0
    /\ pc = "outer"
    /\ luts = <<>>
    /\ lut = NoLut
    /\ depth = 0
    /\ added = <<>>
    /\ i = 0 /\ pair_a = <<>> /\ pair_b = <<>> /\ n_pairs = 0
    /\ report = <<>> /\ ppc = "idle"
    /\ UnionIdle

ParseFrame == UNCHANGED <<i, pair_a, pair_b, n_pairs, report, ppc, ua, ub, ures, upc, buf>>

(***************************************************************************)
(* One iteration of the outer loop up to the start of the port list,       *)
(* lines 204-238.                                                          *)
(***************************************************************************)
ScanCell ==
    /\ pc = "outer"
    /\ At(Mem, p) # NUL
    /\ LET cell == parse_identifier(Mem, p)
           inst == parse_identifier(Mem, cell.p)
           paren == skip_spaces(Mem, inst.p)
       IN  IF ~cell.ok
           THEN p' = p + 1 /\ UNCHANGED <<pc, lut, depth>>
           ELSE IF ~is_gtp_lut_cell(cell.tok)
           THEN p' = cell.p /\ UNCHANGED <<pc, lut, depth>>
           ELSE IF ~inst.ok
           THEN p' = cell.p /\ UNCHANGED <<pc, lut, depth>>
           ELSE IF At(Mem, paren) # "("
           THEN p' = paren /\ UNCHANGED <<pc, lut, depth>>
           ELSE /\ p' = paren + 1
                /\ lut' = [inst |-> inst.tok, nets |-> <<>>, used |-> FALSE]
                /\ depth' = 1
                /\ pc' = "ports"
    /\ added' = <<>>
    /\ UNCHANGED <<luts, junk, over>>
    /\ ParseFrame

(***************************************************************************)
(* One iteration of the port-list loop, lines 239-289.  The p++ of line    *)
(* 246 is taken on any character that is not '.', the terminator included; *)
(* the cursor then lies behind the memory modelled so far and the next     *)
(* test of *p is an out-of-bounds read (pc = "over").                      *)
(***************************************************************************)
PortStep ==
    /\ pc = "ports"
    /\ At(Mem, p) # NUL /\ depth > 0
    /\ LET q == skip_spaces(Mem, p)
           c == At(Mem, q)
           port == parse_identifier(Mem, q + 1)
           paren == skip_spaces(Mem, port.p)
           net_start == paren + 1
           net_end == ScanToClose(Mem, net_start)
           raw == SubSeq(Mem, net_start + 1, net_end)
       IN  IF c = ")"
           THEN /\ depth' = depth - 1 /\ p' = q + 1 /\ pc' = "resync"
                /\ UNCHANGED <<lut, added>>
           ELSE IF c = "("
           THEN /\ depth' = depth + 1 /\ p' = q + 1
                /\ UNCHANGED <<pc, lut, added>>
           ELSE IF c # "."
           THEN /\ p' = q + 1
                /\ pc' = IF q + 1 >= Len(Mem) THEN "over" ELSE "ports"
                /\ UNCHANGED <<depth, lut, added>>
           ELSE IF ~port.ok
           THEN p' = q + 1 /\ UNCHANGED <<pc, depth, lut, added>>
           ELSE IF At(Mem, paren) # "("
           THEN p' = paren /\ UNCHANGED <<pc, depth, lut, added>>
           ELSE /\ p' = IF At(Mem, net_end) = ")" THEN net_end + 1 ELSE net_end
                /\ IF record_port(port.tok)
                   THEN /\ lut' = [lut EXCEPT !.nets = lut_add_net_unique(lut.nets, raw)]
                        /\ added' = Append(added, raw)
                   ELSE UNCHANGED <<lut, added>>
                /\ UNCHANGED <<pc, depth>>
    /\ UNCHANGED <<luts, junk, over>>
    /\ ParseFrame

(***************************************************************************)
(* The read of *p behind the modelled memory is undefined: the process is  *)
(* killed, or the read finds some bytes there and the loop goes on.        *)
(***************************************************************************)
OverRead ==
    /\ pc = "over"
    /\ \/ pc' = "crash" /\ UNCHANGED <<junk, over>>
       \/ /\ over < MaxOverreads
          /\ \E t \in Tails : junk' = junk \o t
          /\ over' = over + 1
          /\ pc' = "ports"
    /\ UNCHANGED <<p, luts, lut, depth, added>>
    /\ ParseFrame

(***************************************************************************)
(* Lines 291-303, after the port-list loop was left by break or by its     *)
(* condition: move to ';' or newline, consume the ';', store the lut.      *)
(***************************************************************************)
StoreLut ==
    /\ \/ pc = "resync"
       \/ pc = "ports" /\ ~(At(Mem, p) # NUL /\ depth > 0)
    /\ LET q == ScanToSemi(Mem, p)
       IN  p' = IF At(Mem, q) = ";" THEN q + 1 ELSE q
    /\ luts' = Append(luts, lut)
    /\ pc' = "outer"
    /\ UNCHANGED <<lut, depth, added, junk, over>>
    /\ ParseFrame

(***************************************************************************)
(* Lines 204 and 306-309: the outer loop ends at the terminator.           *)
(***************************************************************************)
ScanEnd ==
    /\ pc = "outer"
    /\ At(Mem, p) = NUL
    /\ pc' = "done"
    /\ UNCHANGED <<p, luts, lut, depth, added, junk, over>>
    /\ ParseFrame

NextParse == ScanCell \/ PortStep \/ OverRead \/ StoreLut \/ ScanEnd

SpecParse == InitParse /\ [][NextParse]_vars

(***************************************************************************)
(* Vocabulary of the extraction claims.  Core(r) is r without its leading  *)
(* and trailing whitespace, stated over index sets.                        *)
(***************************************************************************)
NonSpaceIdx(r) == {k \in 1..Len(r) : ~isspace(r[k])}

Core(r) ==
    IF NonSpaceIdx(r) = {} THEN <<>>
    ELSE SubSeq(r, CHOOSE k \in NonSpaceIdx(r) : \A l \in NonSpaceIdx(r) : k <= l,
                   CHOOSE k \in NonSpaceIdx(r) : \A l \in NonSpaceIdx(r) : k >= l)

FirstBound(t) == CHOOSE k \in 1..Len(added) : Core(added[k]) = t /\ \A l \in 1..(k - 1) : Core(added[l]) # t

Trimmed(t) == t # <<>> /\ ~isspace(t[1]) /\ ~isspace(t[Len(t)])

(***************************************************************************)
(* C4: an identifier passing the cell-name predicate that is followed by   *)
(* (a) no parsable instance name, (b) an instance name not followed by     *)
(* '(', or (c) a port list cut off by the end of the input before its      *)
(* closing ')' appends no Instance, and the outer scan resumes from the    *)
(* current cursor.                                                         *)
(***************************************************************************)
CellHere ==
    /\ pc = "outer"
    /\ At(Mem, p) # NUL
    /\ parse_identifier(Mem, p).ok
    /\ is_gtp_lut_cell(parse_identifier(Mem, p).tok)

AfterCell == parse_identifier(Mem, p).p

MissingName == CellHere /\ ~parse_identifier(Mem, AfterCell).ok

MissingParen ==
    /\ CellHere
    /\ parse_identifier(Mem, AfterCell).ok
    /\ At(Mem, skip_spaces(Mem, parse_identifier(Mem, AfterCell).p)) # "("

TruncatedList == pc = "ports" /\ over = 0 /\ p = Len(buf) /\ depth > 0

C4_Step ==
    /\ MissingName => luts' = luts /\ pc' = "outer" /\ p' = AfterCell
    /\ MissingParen =>
          /\ luts' = luts /\ pc' = "outer"
          /\ p' = skip_spaces(Mem, parse_identifier(Mem, AfterCell).p)
    /\ TruncatedList => luts' = luts /\ pc' = "outer" /\ p' = p

C5_InputsOrderedSet ==
    /\ \A k \in 1..Len(luts) :
          NoDup(luts[k].nets) /\ \A x \in 1..Len(luts[k].nets) : Trimmed(luts[k].nets[x])
    /\ pc \in {"ports", "resync", "over", "crash"} =>
          /\ NoDup(lut.nets)
          /\ \A x \in 1..Len(lut.nets) : Trimmed(lut.nets[x])
          /\ Range(lut.nets) = {Core(added[k]) : k \in 1..Len(added)} \ {<<>>}
          /\ \A x, y \in 1..Len(lut.nets) :
                x < y => FirstBound(lut.nets[x]) < FirstBound(lut.nets[y])

C5_Witness ==
    /\ pc = "ports"
    /\ Len(added) = 3
    /\ Len(lut.nets) = 2
    /\ Core(added[2]) # added[2]
    /\ Core(added[2]) \in {added[1], added[3]}

(***************************************************************************)
(* C7: in the port list the depth counter starts at 1, a bare '(' at the   *)
(* top of the loop increments it, a ')' at the top of the loop decrements  *)
(* it, and the list is closed by a ')' only when the counter has reached   *)
(* 0.                                                                      *)
(***************************************************************************)
C7_Step ==
    /\ (pc = "outer" /\ pc' = "ports") => depth' = 1
    /\ (pc = "ports" /\ pc' = "ports" /\ At(Mem, skip_spaces(Mem, p)) = "(") => depth' = depth + 1
    /\ (pc = "ports" /\ pc' = "resync") => depth' = depth - 1 /\ depth' = 0

C7_ListEndsAtDepthZero == [][C7_Step]_vars

(***************************************************************************)
(* C9: in every state of the scan the cursor is at most the length of the  *)
(* buffer, i.e. never behind the terminating NUL.                          *)
(***************************************************************************)
C9_CursorInBuffer == pc # "idle" => p <= Len(buf)

====
